---- MODULE Spec2Model ----
(***************************************************************************)
(* London Cocktail Week 2025 map application (src/app.py).                 *)
(*                                                                         *)
(* The application reads data/bars.csv and data/drinks.csv once, when the  *)
(* module is imported (load_data, line 51), and then answers two routes:   *)
(*   GET /              index():       text and preference filter, map     *)
(*   GET /bar/<bar_id>  bar_details(): detail card or 404                  *)
(*                                                                         *)
(* A string is a sequence of one-character strings.  A DataFrame is the    *)
(* sequence of its rows, each carrying its index label: read_csv gives a   *)
(* RangeIndex 0..n-1, and boolean-mask selection keeps the labels.         *)
(***************************************************************************)
EXTENDS Integers, Sequences, FiniteSets, TLC

\* Bounds of the model.
MaxRows == 2
MaxDrinks == 1
MaxQueryLen == 2
MaxBarId == 3

\* Python's None where a string is expected, and the message-less state of
\* error_message: the empty sequence, falsy like None.
None == <<>>
\* pandas' NaN in a string column: a value no character sequence equals.
NaN == <<"NaN">>

Str_AB == <<"A", "b">>
Str_ba == <<"b", "a">>
Str_adot == <<"a", ".">>
Str_aB == <<"a", "B">>

\* Rows a bars.csv may hold: the columns index() and bar_details() read.
BarCatalogue ==
    { [Bar_Name |-> Str_AB, Address |-> "1 High St", R_Preference |-> TRUE,
       F_Preference |-> FALSE, Latitude |-> 51, Longitude |-> 0],
      [Bar_Name |-> Str_ba, Address |-> "2 Low Rd", R_Preference |-> TRUE,
       F_Preference |-> TRUE, Latitude |-> 52, Longitude |-> 0],
      [Bar_Name |-> Str_adot, Address |-> "3 Dot Ln", R_Preference |-> FALSE,
       F_Preference |-> TRUE, Latitude |-> 51, Longitude |-> -1],
      [Bar_Name |-> Str_aB, Address |-> "4 Mid Sq", R_Preference |-> FALSE,
       F_Preference |-> FALSE, Latitude |-> 52, Longitude |-> -1],
      [Bar_Name |-> NaN, Address |-> "5 Nil Pl", R_Preference |-> TRUE,
       F_Preference |-> TRUE, Latitude |-> 51, Longitude |-> 0] }

\* A drinks.csv row is opaque: no column of it is read.
DrinkRow == "drink"

SeqsUpTo(S, n) == UNION { [1..k -> S] : k \in 0..n }

\* A file on disk: absent, zero bytes (no columns to parse), unreadable in
\* some other way, or a header line followed by rows (possibly none).
FileOf(kind, rows) == [kind |-> kind, rows |-> rows]
BarsFiles ==
    { FileOf(k, <<>>) : k \in {"missing", "empty", "malformed"} }
    \cup { FileOf("table", r) : r \in SeqsUpTo(BarCatalogue, MaxRows) }
DrinksFiles ==
    { FileOf(k, <<>>) : k \in {"missing", "empty", "malformed"} }
    \cup { FileOf("table", r) : r \in SeqsUpTo({DrinkRow}, MaxDrinks) }

\* Characters a visitor may type, and the raw query strings built from them.
QueryChars == {"a", "B", ".", " ", "("}
Queries == SeqsUpTo(QueryChars, MaxQueryLen)
Preferences == {"", "r", "f", "both", "none", "x"}
BarIds == 0..MaxBarId

VARIABLES bars_file, drinks_file, pc, bars_df, drinks_df, error_message,
          request, filtered_df, response

vars == <<bars_file, drinks_file, pc, bars_df, drinks_df, error_message,
          request, filtered_df, response>>

\* ---------------------------------------------------------------- pandas

\* pd.DataFrame(): no rows.
EmptyDataFrame == <<>>

\* The DataFrame read_csv builds from rows: a RangeIndex from 0.
DataFrame(rows) == [i \in 1..Len(rows) |-> [idx |-> i - 1, row |-> rows[i]]]

\* The two paths load_data reads.
bars_path == "data/bars.csv"
drinks_path == "data/drinks.csv"

\* os.path.exists(path)
path_exists(file) == file.kind # "missing"

\* pd.read_csv(path): the exception it raises with its text, if any, else
\* the frame.  A file with no columns raises EmptyDataError; a header without
\* rows is read as a frame of zero rows.
read_csv(path, file) ==
    CASE file.kind = "missing" ->
            [raised |-> "FileNotFoundError",
             text |-> <<"No such file or directory", path>>, df |-> EmptyDataFrame]
      [] file.kind = "empty" ->
            [raised |-> "EmptyDataError",
             text |-> <<"No columns to parse from file">>, df |-> EmptyDataFrame]
      [] file.kind = "malformed" ->
            [raised |-> "Exception", text |-> <<"cause">>, df |-> EmptyDataFrame]
      [] OTHER -> [raised |-> "", text |-> <<>>, df |-> DataFrame(file.rows)]

\* ------------------------------------------------------------- load_data

\* The except clauses with "except Exception" written first: it catches
\* every exception, and the two specific clauses are never reached.
except_clause_generic_first(raised) == "Unexpected error loading data"

\* Lines 43-48: the except clause that catches an exception, as the prefix
\* of the message it builds.
except_clause(raised) ==
    CASE raised = "FileNotFoundError" -> "Missing data file"
      [] raised = "EmptyDataError" -> "Data file is empty"
      [] OTHER -> "Unexpected error loading data"

\* f"{prefix} — {e}"
message_of(raised, text) == <<except_clause(raised)>> \o text

\* load_data without the existence check of the drinks file (lines 35-36):
\* the missing file is found by read_csv, after the bars frame was bound.
load_data_unchecked_drinks(bars, drinks) ==
    IF ~path_exists(bars)
    THEN <<EmptyDataFrame, EmptyDataFrame,
           message_of("FileNotFoundError", <<"File not found", bars_path>>)>>
    ELSE LET b == read_csv(bars_path, bars) IN
         IF b.raised # ""
         THEN <<EmptyDataFrame, EmptyDataFrame, message_of(b.raised, b.text)>>
         ELSE LET d == read_csv(drinks_path, drinks) IN
              IF d.raised # ""
              THEN <<b.df, EmptyDataFrame, message_of(d.raised, d.text)>>
              ELSE <<b.df, d.df, None>>

\* load_data(): <<bars_df, drinks_df, error message>>.  The frames start
\* empty (lines 29-30); each is rebound only when its read_csv returns.
load_data(bars, drinks) ==
    IF ~path_exists(bars)
    THEN <<EmptyDataFrame, EmptyDataFrame,
           message_of("FileNotFoundError", <<"File not found", bars_path>>)>>
    ELSE IF ~path_exists(drinks)
    THEN <<EmptyDataFrame, EmptyDataFrame,
           message_of("FileNotFoundError", <<"File not found", drinks_path>>)>>
    ELSE LET b == read_csv(bars_path, bars) IN
         IF b.raised # ""
         THEN <<EmptyDataFrame, EmptyDataFrame, message_of(b.raised, b.text)>>
         ELSE LET d == read_csv(drinks_path, drinks) IN
              IF d.raised # ""
              THEN <<b.df, EmptyDataFrame, message_of(d.raised, d.text)>>
              ELSE <<b.df, d.df, None>>

\* --------------------------------------------------------------- strings

\* str.lower() on one character.
lower_char(c) == CASE c = "A" -> "a" [] c = "B" -> "b" [] OTHER -> c

\* str.lower()
lower(s) == [i \in 1..Len(s) |-> lower_char(s[i])]

\* str.strip(): leading and trailing whitespace removed.
strip(s) ==
    LET inked == {i \in 1..Len(s) : s[i] # " "} IN
    IF inked = {} THEN <<>>
    ELSE SubSeq(s, CHOOSE i \in inked : \A j \in inked : i <= j,
                   CHOOSE i \in inked : \A j \in inked : i >= j)

\* re.compile(pat): an opening parenthesis that is never closed is
\* "missing ), unterminated subpattern" (no ")" can be typed here).
re_compiles(pat) == \A i \in 1..Len(pat) : pat[i] # "("

\* One pattern character against one subject character under re.IGNORECASE:
\* "." matches any character, anything else matches itself in either case.
re_char(p, c) == p = "." \/ lower_char(p) = lower_char(c)

\* re.search(pat, s, re.IGNORECASE) is not None, for a pattern that compiles.
re_search(pat, s) ==
    \E off \in 0..(Len(s) - Len(pat)) :
        \A j \in 1..Len(pat) : re_char(pat[j], s[off + j])

\* Series.str.contains(pat, case=False, na=False) on one value: regex=True
\* is the default, and a missing value counts as no match.
str_contains(value, pat) == IF value = NaN THEN FALSE ELSE re_search(pat, value)

\* ----------------------------------------------------------------- index

\* Series.str: a column whose values are all missing is read as float64,
\* and the accessor raises AttributeError on it; a column of no rows is of
\* dtype object.
str_accessor_raises(df) == df # <<>> /\ \A i \in 1..Len(df) : df[i].row.Bar_Name = NaN

\* Lines 142-143: the text filter.  The pattern is compiled before any row
\* is looked at, so a pattern that does not compile fails on any frame.
text_filter(df, query) ==
    IF query = <<>> THEN [raised |-> "", df |-> df]
    ELSE IF str_accessor_raises(df)
    THEN [raised |-> "AttributeError", df |-> EmptyDataFrame]
    ELSE IF ~re_compiles(query) THEN [raised |-> "re.error", df |-> EmptyDataFrame]
    ELSE [raised |-> "",
          df |-> SelectSeq(df, LAMBDA e : str_contains(e.row.Bar_Name, query))]

\* Lines 146-153: the preference filter.
preference_filter(df, preference) ==
    CASE preference = "r" -> SelectSeq(df, LAMBDA e : e.row.R_Preference = TRUE)
      [] preference = "f" -> SelectSeq(df, LAMBDA e : e.row.F_Preference = TRUE)
      [] preference = "both" ->
            SelectSeq(df, LAMBDA e : e.row.R_Preference = TRUE /\ e.row.F_Preference = TRUE)
      [] preference = "none" ->
            SelectSeq(df, LAMBDA e : e.row.R_Preference = FALSE /\ e.row.F_Preference = FALSE)
      [] OTHER -> df

\* Lines 140-153: filtered_df after both filters, from the normalised query.
filter(df, query, preference) ==
    LET t == text_filter(df, query) IN
    IF t.raised # "" THEN t
    ELSE [raised |-> "", df |-> preference_filter(t.df, preference)]

\* Series.mean(): <<sum, count>> stands for sum/count, and <<0, 0>> for the
\* NaN that the mean of no values is.
RECURSIVE column_sum(_, _)
column_sum(df, col) ==
    IF df = <<>> THEN 0 ELSE df[1].row[col] + column_sum(Tail(df), col)

mean(df, col) == <<column_sum(df, col), Len(df)>>

isnan(m) == m[2] = 0

\* Lines 155-158: both branches compute the same two means.
map_center(df) ==
    IF df # <<>>
    THEN <<mean(df, "Latitude"), mean(df, "Longitude")>>
    ELSE <<mean(df, "Latitude"), mean(df, "Longitude")>>

\* Line 160: folium.Map(location=...) validates the location and raises
\* ValueError("Location values cannot contain NaNs.") on a NaN coordinate.
folium_Map_raises(location) == isnan(location[1]) \/ isnan(location[2])

\* The marker chain with "|" for "&" in its first test.
marker_icon_or(r_preference, f_preference) ==
    IF r_preference \/ f_preference THEN [colour |-> "red", icon |-> "star"]
    ELSE IF r_preference /\ ~f_preference THEN [colour |-> "orange", icon |-> "lemon"]
    ELSE IF f_preference /\ ~r_preference THEN [colour |-> "green", icon |-> "cat"]
    ELSE [colour |-> "lightgray", icon |-> "face-frown"]

\* Lines 169-183: the marker's colour and icon from the two flags.
marker_icon(r_preference, f_preference) ==
    IF r_preference /\ f_preference THEN [colour |-> "red", icon |-> "star"]
    ELSE IF r_preference /\ ~f_preference THEN [colour |-> "orange", icon |-> "lemon"]
    ELSE IF f_preference /\ ~r_preference THEN [colour |-> "green", icon |-> "cat"]
    ELSE [colour |-> "lightgray", icon |-> "face-frown"]

\* Lines 162-193: one marker per row of filtered_df, in its order.
markers(df) ==
    [i \in 1..Len(df) |->
        [location |-> <<df[i].row.Latitude, df[i].row.Longitude>>,
         popup |-> [name |-> df[i].row.Bar_Name, href |-> <<"/bar/", df[i].idx>>],
         colour |-> marker_icon(df[i].row.R_Preference, df[i].row.F_Preference).colour,
         icon |-> marker_icon(df[i].row.R_Preference, df[i].row.F_Preference).icon]]

\* A response; the fields a kind of response does not have are empty.
Response(status, kind, message, center, marks, bar) ==
    [status |-> status, kind |-> kind, message |-> message, center |-> center,
     markers |-> marks, bar |-> bar]

NoRequest == [route |-> "", query |-> <<>>, preference |-> "", bar_id |-> 0]
NoFilter == [raised |-> "unset", df |-> <<>>]
NoResponse == Response(0, "", <<>>, <<>>, <<>>, <<>>)

\* Line 137: the query parameter, stripped and lowercased.
normalise(raw) == lower(strip(raw))

\* index() filtering the global frame itself (no copy, rows dropped in
\* place): the global frame is what the filters left.
bars_df_filtered_in_place(global_df, local_df) == local_df

\* Line 140: filtered_df is a copy, and every filter rebinds the local name:
\* the global frame is what it was.
bars_df_after_index(global_df, local_df) == global_df

\* index(): what it leaves in filtered_df and what it returns.  An exception
\* that leaves the handler is the framework's 500 response.
index(df, message, raw, preference) ==
    IF message # None
    THEN [filtered |-> NoFilter,
          response |-> Response(200, "text", message, <<>>, <<>>, <<>>)]
    ELSE LET f == filter(df, normalise(raw), preference) IN
         IF f.raised # ""
         THEN [filtered |-> f,
               response |-> Response(500, f.raised, <<>>, <<>>, <<>>, <<>>)]
         ELSE IF folium_Map_raises(map_center(f.df))
         THEN [filtered |-> f,
               response |-> Response(500, "ValueError", <<>>, map_center(f.df), <<>>, <<>>)]
         ELSE [filtered |-> f,
               response |-> Response(200, "map", <<>>, map_center(f.df), markers(f.df), <<>>)]

\* ----------------------------------------------------------- bar_details

\* bar_id in bars_df.index
in_index(df, bar_id) == \E i \in 1..Len(df) : df[i].idx = bar_id

\* bars_df.loc[bar_id]
loc(df, bar_id) == df[CHOOSE i \in 1..Len(df) : df[i].idx = bar_id].row

\* bar_details taking bar_id as a position counted from 1.
bar_details_from_one(df, bar_id) ==
    IF ~in_index(df, bar_id - 1)
    THEN Response(404, "Bar not found", <<>>, <<>>, <<>>, <<>>)
    ELSE Response(200, "detail", <<>>, <<>>, <<>>, <<loc(df, bar_id - 1)>>)

\* bar_details(bar_id)
bar_details(df, bar_id) ==
    IF ~in_index(df, bar_id)
    THEN Response(404, "Bar not found", <<>>, <<>>, <<>>, <<>>)
    ELSE Response(200, "detail", <<>>, <<>>, <<>>, <<loc(df, bar_id)>>)

\* --------------------------------------------------------------- actions

Init ==
    /\ bars_file \in BarsFiles
    /\ drinks_file \in DrinksFiles
    /\ pc = "boot"
    /\ bars_df = EmptyDataFrame
    /\ drinks_df = EmptyDataFrame
    /\ error_message = None
    /\ request = NoRequest
    /\ filtered_df = NoFilter
    /\ response = NoResponse

\* Line 51: the module-level call that fills the three globals.
Startup ==
    /\ pc = "boot"
    /\ LET loaded == load_data(bars_file, drinks_file) IN
         /\ bars_df' = loaded[1]
         /\ drinks_df' = loaded[2]
         /\ error_message' = loaded[3]
    /\ pc' = "serving"
    /\ UNCHANGED <<bars_file, drinks_file, request, filtered_df, response>>

\* GET /?query=...&preference=...
Index ==
    /\ pc = "serving"
    /\ \E raw \in Queries, preference \in Preferences :
         LET out == index(bars_df, error_message, raw, preference) IN
           /\ request' = [route |-> "/", query |-> raw, preference |-> preference,
                          bar_id |-> 0]
           /\ filtered_df' = out.filtered
           /\ response' = out.response
           /\ bars_df' = bars_df_after_index(bars_df, out.filtered.df)
    /\ pc' = "responded"
    /\ UNCHANGED <<bars_file, drinks_file, drinks_df, error_message>>

\* GET /bar/<int:bar_id>
BarDetails ==
    /\ pc = "serving"
    /\ \E bar_id \in BarIds :
         /\ request' = [route |-> "/bar", query |-> <<>>, preference |-> "",
                        bar_id |-> bar_id]
         /\ response' = bar_details(bars_df, bar_id)
    /\ filtered_df' = NoFilter
    /\ pc' = "responded"
    /\ UNCHANGED <<bars_file, drinks_file, bars_df, drinks_df, error_message>>

\* The response is sent; the handler's locals are gone and the server waits
\* for the next request.
Reply ==
    /\ pc = "responded"
    /\ pc' = "serving"
    /\ request' = NoRequest
    /\ filtered_df' = NoFilter
    /\ response' = NoResponse
    /\ UNCHANGED <<bars_file, drinks_file, bars_df, drinks_df, error_message>>

Next == Startup \/ Index \/ BarDetails \/ Reply

Spec == Init /\ [][Next]_vars

\* ---------------------------------------------------------------- claims

Booted == pc # "boot"
Answered(route) == pc = "responded" /\ request.route = route

\* What load_data returns for the files on disk.
Loaded == load_data(bars_file, drinks_file)

\* The text predicate as the specification words it: q occurs in the name as
\* a substring, letter case ignored; no metacharacters.
contains_substring(name, q) ==
    /\ name # NaN
    /\ \E off \in 0..(Len(name) - Len(q)) :
          \A j \in 1..Len(q) : lower_char(name[off + j]) = lower_char(q[j])

\* The preference predicate as the specification words it.
satisfies(row, preference) ==
    CASE preference = "r" -> row.R_Preference
      [] preference = "f" -> row.F_Preference
      [] preference = "both" -> row.R_Preference /\ row.F_Preference
      [] preference = "none" -> ~row.R_Preference /\ ~row.F_Preference
      [] OTHER -> TRUE

\* C1 (as claimed): the filter of GET / returns exactly the rows of the bar
\* dataset whose name contains the text query as a case-insensitive substring
\* (every row when the query is empty) and that satisfy the preference, each
\* with its original index, in the dataset's order.
C1_FilterIsSubstringAndPreference ==
    (Answered("/") /\ error_message = None) =>
        LET q == normalise(request.query) IN
        /\ filtered_df.raised = ""
        /\ filtered_df.df =
             SelectSeq(bars_df, LAMBDA e :
                /\ q = <<>> \/ contains_substring(e.row.Bar_Name, q)
                /\ satisfies(e.row, request.preference))

\* C2 (as claimed): with a preference that is empty or not one of r, f, both,
\* none, the filter returns what the text filter alone returns, all of the
\* dataset in order when the query is empty, and never ends in an error.
C2_UnrecognisedPreferenceIsNoOp ==
    (Answered("/") /\ error_message = None
       /\ request.preference \notin {"r", "f", "both", "none"}) =>
        LET q == normalise(request.query) IN
        /\ filtered_df.raised = ""
        /\ filtered_df.df = text_filter(bars_df, q).df
        /\ (q = <<>> => filtered_df.df = bars_df)

\* The part of C2 that is about the preference alone: an unrecognised
\* preference leaves the outcome of the text filter, error or rows, as it is.
UnrecognisedPreferenceKeepsTextFilter ==
    (Answered("/") /\ error_message = None
       /\ request.preference \notin {"r", "f", "both", "none"}) =>
        /\ filtered_df = text_filter(bars_df, normalise(request.query))
        /\ (normalise(request.query) = <<>> =>
               filtered_df.raised = "" /\ filtered_df.df = bars_df)

\* C3: every marker of a map has the colour and icon the table gives for its
\* row's two flags (true,true red/star; true,false orange/lemon; false,true
\* green/cat; false,false lightgray/face-frown), and two rows with equal
\* flags get the same colour and icon.
C3_MarkerFollowsFlagTable ==
    (Answered("/") /\ response.kind = "map") =>
        /\ Len(response.markers) = Len(filtered_df.df)
        /\ \A i \in 1..Len(response.markers) :
             LET r == filtered_df.df[i].row.R_Preference
                 f == filtered_df.df[i].row.F_Preference
                 m == <<response.markers[i].colour, response.markers[i].icon>>
             IN /\ (r /\ f) => m = <<"red", "star">>
                /\ (r /\ ~f) => m = <<"orange", "lemon">>
                /\ (~r /\ f) => m = <<"green", "cat">>
                /\ (~r /\ ~f) => m = <<"lightgray", "face-frown">>
        /\ \A i, j \in 1..Len(response.markers) :
             (/\ filtered_df.df[i].row.R_Preference = filtered_df.df[j].row.R_Preference
              /\ filtered_df.df[i].row.F_Preference = filtered_df.df[j].row.F_Preference)
             => /\ response.markers[i].colour = response.markers[j].colour
                /\ response.markers[i].icon = response.markers[j].icon

\* A map with an orange/lemon marker followed by a lightgray/face-frown one.
C3_Witness ==
    /\ Answered("/") /\ response.kind = "map"
    /\ Len(response.markers) = 2
    /\ response.markers[1].colour = "orange"
    /\ response.markers[2].icon = "face-frown"

\* GET /bar/<id> answers with the row the loaded dataset holds at position
\* id (counted from 0), or with 404 "Bar not found" when it has no such row.
DetailViewAnswer ==
    Answered("/bar") =>
        IF request.bar_id < Len(bars_df)
        THEN /\ response.status = 200
             /\ response.kind = "detail"
             /\ response.bar = <<bars_df[request.bar_id + 1].row>>
        ELSE /\ response.status = 404
             /\ response.kind = "Bar not found"
             /\ response.bar = <<>>

\* A request answered 404 leaves the three globals as they were.
NotFoundChangesNothing ==
    (response'.status = 404) => UNCHANGED <<bars_df, drinks_df, error_message>>

\* C4: detailView returns the stored record at idx when idx is in the
\* dataset's index space and fails with 404 "Bar not found" otherwise, and a
\* 404 changes no state.
C4_DetailViewOrNotFound == []DetailViewAnswer /\ [][NotFoundChangesNothing]_vars

\* A 404 for an id just past the last of two loaded rows.
C4_WitnessNotFound ==
    /\ Answered("/bar") /\ response.status = 404
    /\ Len(bars_df) = 2 /\ request.bar_id = 2

\* C5: when a source is missing, load returns two empty datasets and a
\* "Missing data file" error naming a source that is missing.
C5_MissingFileNamed ==
    (Booted /\ (bars_file.kind = "missing" \/ drinks_file.kind = "missing")) =>
        /\ bars_df = EmptyDataFrame
        /\ drinks_df = EmptyDataFrame
        /\ Len(error_message) = 3
        /\ error_message[1] = "Missing data file"
        /\ error_message[2] = "File not found"
        /\ \/ error_message[3] = "data/bars.csv" /\ bars_file.kind = "missing"
           \/ error_message[3] = "data/drinks.csv" /\ drinks_file.kind = "missing"

\* Bars present with rows, drinks missing.
C5_Witness ==
    /\ Booted
    /\ bars_file.kind = "table" /\ Len(bars_file.rows) = 2
    /\ drinks_file.kind = "missing"

HasNoRowsOrColumns(file) ==
    file.kind = "empty" \/ (file.kind = "table" /\ file.rows = <<>>)

\* C6 (as claimed): both sources exist and one has no rows or no columns:
\* the error is "Data file is empty"; and a load without error has both
\* datasets populated.
C6_NoRowsOrColumnsIsEmptyData ==
    (Booted /\ bars_file.kind # "missing" /\ drinks_file.kind # "missing") =>
        /\ (HasNoRowsOrColumns(bars_file) \/ HasNoRowsOrColumns(drinks_file))
              => (error_message # None /\ error_message[1] = "Data file is empty")
        /\ error_message = None => (bars_df # <<>> /\ drinks_df # <<>>)

\* C6 (amended): both sources exist: the error is "Data file is empty"
\* exactly when the first source that fails to be read, bars before drinks,
\* is a file with no columns; a header without rows is read as a dataset of
\* no rows; without error each dataset holds the rows of its source, in order.
C6_NoColumnsIsEmptyData ==
    (Booted /\ bars_file.kind # "missing" /\ drinks_file.kind # "missing") =>
        /\ (error_message # None /\ error_message[1] = "Data file is empty")
              <=> \/ bars_file.kind = "empty"
                  \/ bars_file.kind = "table" /\ drinks_file.kind = "empty"
        /\ error_message = None
              <=> (bars_file.kind = "table" /\ drinks_file.kind = "table")
        /\ error_message = None =>
              /\ Len(bars_df) = Len(bars_file.rows)
              /\ \A i \in 1..Len(bars_df) :
                    bars_df[i].idx = i - 1 /\ bars_df[i].row = bars_file.rows[i]
              /\ Len(drinks_df) = Len(drinks_file.rows)
              /\ \A i \in 1..Len(drinks_df) :
                    drinks_df[i].idx = i - 1 /\ drinks_df[i].row = drinks_file.rows[i]

\* A header without rows in bars.csv, loaded without error.
C6_WitnessHeaderOnly ==
    /\ Booted
    /\ bars_file = FileOf("table", <<>>)
    /\ drinks_file.kind = "table"
    /\ error_message = None
    /\ bars_df = <<>>

\* C7 (as claimed): whenever load_data returns an error message, both
\* datasets it returns are empty.
C7_FailedLoadReturnsEmptyFrames ==
    (Booted /\ error_message # None) =>
        (bars_df = EmptyDataFrame /\ drinks_df = EmptyDataFrame)

\* C8 (as claimed): while the load error is set, every answered request, on
\* either route, is the degraded response carrying that error, and the error
\* is the one the load returned.
C8_LoadErrorSurfacedOnEveryRequest ==
    (Booted /\ error_message # None) =>
        /\ error_message = Loaded[3]
        /\ pc = "responded" =>
              (response.kind = "text" /\ response.message = error_message)

\* C9: after startup the bar dataset, the drink dataset and the error are
\* what load returned, whatever requests were answered, and every answer is
\* the one those loaded values give for the request.
C9_DatasetWrittenOnce ==
    Booted =>
        /\ <<bars_df, drinks_df, error_message>> = Loaded
        /\ Answered("/") =>
              response = index(Loaded[1], Loaded[3], request.query,
                               request.preference).response
        /\ Answered("/bar") => response = bar_details(Loaded[1], request.bar_id)

\* A filter that kept one row of two has been answered.
C9_Witness ==
    /\ Answered("/") /\ response.kind = "map"
    /\ Len(filtered_df.df) = 1
    /\ Len(bars_df) = 2

\* C10 (as claimed): when the filter leaves no row, the request still
\* completes: the center is the NaN mean, no marker is made, and the request
\* does not fail.
C10_EmptyResultStillAnswered ==
    (Answered("/") /\ error_message = None
       /\ filtered_df.raised = "" /\ filtered_df.df = <<>>) =>
        /\ isnan(response.center[1]) /\ isnan(response.center[2])
        /\ response.markers = <<>>
        /\ response.status = 200
====
